---- MODULE Spec2Model ----
(***************************************************************************)
(* Model of the repair-symbol encoder of src/FecalEncoder.cpp:             *)
(* Encoder::Initialize and Encoder::Encode over the Window, the lane sums  *)
(* and the Sum/Product workspace.                                          *)
(*                                                                         *)
(* FecalEncoder.h, FecalCommon.h and gf256.h are not part of the source    *)
(* tree.  What they declare (the field primitives, the sequence generator, *)
(* the code descriptor, AppDataWindow::SetParameters, the buffer           *)
(* allocator, XORSummer and the three k* constants) is modelled from the   *)
(* contracts of the specification; the generator, the descriptor formulas  *)
(* and the values of kColumnLaneCount / kPairAddRate are small stand-ins.  *)
(***************************************************************************)
EXTENDS Integers, Sequences, FiniteSets, TLC

\* ------------------------------------------------------------------------
\* Bounds of the model

MaxInputCount == 3

MaxSymbolBytes == 2

MaxRow == 1

\* the sample blocks a caller initializes with (see DataByte)
Blocks == {1, 2}

MaxAllocInits == 2

\* values a read outside a buffer can produce
JunkBytes == {0, 165}

Threads == {1, 2}

\* ------------------------------------------------------------------------
\* Code-construction constants

kColumnLaneCount == 2

kColumnSumCount == 3

kPairAddRate == 2

\* ------------------------------------------------------------------------
\* Result codes, memory

Fecal_Success == "Fecal_Success"

Fecal_InvalidInput == "Fecal_InvalidInput"

Fecal_OutOfMemory == "Fecal_OutOfMemory"

\* the process died on an invalid memory access
Crash == "Crash"

\* a null Data pointer (Allocate is never called with 0 bytes)
Null == <<>>

\* an indeterminate byte of freshly allocated memory
Uninit == -1

Byte == 0..255

Lanes == 0..(kColumnLaneCount - 1)

Sums == 0..(kColumnSumCount - 1)

\* ------------------------------------------------------------------------
\* Field primitives: GF(256), addition is XOR, multiplication modulo the
\* generator polynomial

RECURSIVE XorBits(_, _, _)
XorBits(a, b, n) ==
    IF n = 0 THEN 0
    ELSE (((a % 2) + (b % 2)) % 2) + (2 * XorBits(a \div 2, b \div 2, n - 1))

\* XOR of two 4-bit values, tabulated
NibbleXor == [a \in 0..15 |-> [b \in 0..15 |-> XorBits(a, b, 4)]]

\* XOR of two bytes, tabulated
XorTable ==
    [a \in Byte |-> [b \in Byte |->
        NibbleXor[a % 16][b % 16] + (16 * NibbleXor[a \div 16][b \div 16])]]

Xor(a, b) == XorTable[a][b]

gf256_add(a, b) == IF a = Uninit \/ b = Uninit THEN Uninit ELSE Xor(a, b)

\* the generator polynomial x^8 + x^6 + x^3 + x^2 + 1
kPolynomial == 333

\* a * x in the field
xtime(a) == IF a >= 128 THEN Xor((2 * a) % 256, kPolynomial % 256) ELSE 2 * a

\* shift-and-add product of two field elements
RECURSIVE MulBits(_, _, _)
MulBits(a, b, n) ==
    IF n = 0 THEN 0
    ELSE Xor(IF b % 2 = 1 THEN a ELSE 0, MulBits(xtime(a), b \div 2, n - 1))

\* powers of the generator x, as in the field's exp table
RECURSIVE GeneratorPower(_)
GeneratorPower(i) ==
    IF i = 0 THEN 1
    ELSE IF i % 2 = 1 THEN xtime(GeneratorPower(i - 1))
    ELSE LET h == GeneratorPower(i \div 2) IN MulBits(h, h, 8)

ExpTable == [i \in 0..254 |-> GeneratorPower(i)]

LogTable == [a \in 1..255 |-> CHOOSE i \in 0..254 : ExpTable[i] = a]

gf256_mul(a, b) ==
    IF a = Uninit \/ b = Uninit THEN Uninit
    ELSE IF a = 0 \/ b = 0 THEN 0
    ELSE ExpTable[(LogTable[a] + LogTable[b]) % 255]

gf256_sqr(x) == gf256_mul(x, x)

\* src[i] as the machine reads it: a read outside the buffer yields junk
ReadByte(src, i, junk) == IF i <= Len(src) THEN src[i] ELSE junk[i]

\* dst[i] ^= src[i] for the first bytes bytes; writes outside dst are lost
gf256_add_mem(dst, src, bytes, junk) ==
    [i \in 1..Len(dst) |->
        IF i <= bytes THEN gf256_add(dst[i], ReadByte(src, i, junk)) ELSE dst[i]]

\* dst[i] ^= y * src[i] for the first bytes bytes
gf256_muladd_mem(dst, y, src, bytes, junk) ==
    [i \in 1..Len(dst) |->
        IF i <= bytes THEN gf256_add(dst[i], gf256_mul(y, ReadByte(src, i, junk)))
        ELSE dst[i]]

memcpy(dst, src, bytes, junk) ==
    [i \in 1..Len(dst) |-> IF i <= bytes THEN ReadByte(src, i, junk) ELSE dst[i]]

\* memset(dst + from, 0, ...) up to offset upto
memset0(dst, from, upto) ==
    [i \in 1..Len(dst) |-> IF i > from /\ i <= upto THEN 0 ELSE dst[i]]

\* XORSummer::Add followed (eventually) by Finalize: dst ^= src; the
\* batching of two sources into one pass is not modelled
XORSummerAdd(dst, src, bytes, junk) == gf256_add_mem(dst, src, bytes, junk)

\* ------------------------------------------------------------------------
\* Code descriptor and sequence generator (stand-ins with the stated
\* contracts: nonzero values, deterministic, bit-reproducible)

GetColumnValue(column) == (column % 255) + 1

GetRowValue(row) == (row % 255) + 1

GetRowOpcode(lane, row) ==
    LET kSumMask == 2 ^ (kColumnSumCount * 2) - 1
        kZeroValue == 2 ^ ((kColumnSumCount - 1) * 2)
        x == lane + (row + 3) * kColumnLaneCount
        opcode == (((x * 37) + 11) * (x + 5)) % (kSumMask + 1)
    IN  IF opcode = 0 THEN kZeroValue ELSE opcode

\* bit number bit of opcode
OpcodeBit(opcode, bit) == (opcode \div (2 ^ bit)) % 2 = 1

\* PCGRandom::Seed(y, x): the generator state; Draws counts the calls of Next
PCGSeed(y, x) == [State |-> ((y * 7919) + (x * 10473) + 12345) % 65536, Draws |-> 0]

PCGAdvance(prng) ==
    [State |-> ((prng.State * 25173) + 13849) % 65536, Draws |-> prng.Draws + 1]

\* the value Next returns is read off the advanced state
PCGValue(prng) == prng.State \div 16

\* ------------------------------------------------------------------------
\* Window

EmptyWindow ==
    [InputCount |-> 0, TotalBytes |-> 0, SymbolBytes |-> 0, FinalBytes |-> 0,
     OriginalData |-> <<>>]

\* AppDataWindow::SetParameters: ok = FALSE is the false return, which
\* leaves the Window as it was (the sizes stay far below the overflow of
\* unsigned)
SetParameters(input_count, total_bytes) ==
    IF input_count = 0 \/ total_bytes = 0
    THEN [ok |-> FALSE, SymbolBytes |-> 0, FinalBytes |-> 0]
    ELSE LET symbolBytes == (total_bytes + input_count - 1) \div input_count
             finalBytes == total_bytes - symbolBytes * (input_count - 1)
         IN  [ok |-> finalBytes > 0, SymbolBytes |-> symbolBytes,
              FinalBytes |-> finalBytes]

IsFinalColumn(W, column) == column = W.InputCount - 1

\* byte offset i (from 1) of column c (from 0) of the caller's block number b
DataByte(b, c, i) == ((b * 53) + (c * 29) + (i * 101)) % 256

\* the buffers a caller owns for a block of total_bytes bytes in input_count
\* columns: every column symbolBytes long, the last one finalBytes long
CallerBlock(b, input_count, total_bytes) ==
    LET P == SetParameters(input_count, total_bytes)
    IN  IF ~P.ok THEN <<>>
        ELSE [c1 \in 1..input_count |->
                [i \in 1..(IF c1 = input_count THEN P.FinalBytes ELSE P.SymbolBytes)
                    |-> DataByte(b, c1 - 1, i)]]

\* the blocks a caller can pass with these parameters (parameters that
\* admit no layout come with no buffers)
CallerBlocks(input_count, total_bytes) ==
    {CallerBlock(b, input_count, total_bytes) : b \in Blocks}

\* Window.OriginalData[column]
Original(W, column) == W.OriginalData[column + 1]

\* ------------------------------------------------------------------------
\* Encoder object

NoLaneSums == [lane \in Lanes |-> [s \in Sums |-> Null]]

FreshEncoder ==
    [Window |-> EmptyWindow, LaneSums |-> NoLaneSums, Sum |-> Null, Product |-> Null]

Zeros(bytes) == [i \in 1..bytes |-> 0]

\* AlignedDataBuffer::Allocate that succeeds: fresh memory, contents indeterminate
Allocated(bytes) == [i \in 1..bytes |-> Uninit]

\* allocations of Initialize in program order: lane sums lane-major, Sum, Product
NumAllocs == (kColumnLaneCount * kColumnSumCount) + 2

AllocIndex(lane, s) == (lane * kColumnSumCount) + s + 1

SumAllocIndex == (kColumnLaneCount * kColumnSumCount) + 1

ProductAllocIndex == (kColumnLaneCount * kColumnSumCount) + 2

\* a buffer after the allocation phase when allocation number failAt fails
\* (0: none fails): the ones before it are reallocated, the failing one is
\* left null, the ones after it are not reached
AfterAllocate(old, index, failAt, fresh) ==
    IF failAt = 0 \/ index < failAt THEN fresh
    ELSE IF index = failAt THEN Null
    ELSE old

\* number of bytes Initialize reads from a column (symbolBytes, lines 97-103)
InitializeReadBytes(W, column) == W.SymbolBytes

\* lines 87-106, one column: the three power sums of the column's lane
AddColumnToLane(laneSums, W, column, junk) ==
    LET data == Original(W, column)
        laneIndex == column % kColumnLaneCount
        CX == GetColumnValue(column)
        CX2 == gf256_sqr(CX)
        lane == laneSums[laneIndex]
        bytes == InitializeReadBytes(W, column)
    IN  [laneSums EXCEPT ![laneIndex] =
            [s \in Sums |->
                IF s = 0 THEN gf256_add_mem(lane[0], data, bytes, junk)
                ELSE IF s = 1 THEN gf256_muladd_mem(lane[1], CX, data, bytes, junk)
                ELSE gf256_muladd_mem(lane[2], CX2, data, bytes, junk)]]

\* the loop of lines 88-106 from column on
RECURSIVE AccumulateColumns(_, _, _, _)
AccumulateColumns(laneSums, W, column, junk) ==
    IF column >= W.InputCount THEN laneSums
    ELSE AccumulateColumns(AddColumnToLane(laneSums, W, column, junk), W, column + 1, junk)

\* Initialize reads past the end of some caller buffer
InitializeOverRead(W) ==
    \E column \in 0..(W.InputCount - 1) :
        InitializeReadBytes(W, column) > Len(Original(W, column))

\* Encoder::Initialize as a function of the object: the object and the
\* return value
InitializeOp(e, input_count, input_data, total_bytes, failAt, junk) ==
    LET P == SetParameters(input_count, total_bytes)
        W == [InputCount |-> input_count, TotalBytes |-> total_bytes,
              SymbolBytes |-> P.SymbolBytes, FinalBytes |-> P.FinalBytes,
              OriginalData |-> input_data]
        lanes0 == [lane \in Lanes |-> [s \in Sums |->
                      AfterAllocate(e.LaneSums[lane][s], AllocIndex(lane, s), failAt,
                                    Zeros(P.SymbolBytes))]]
        sum0 == AfterAllocate(e.Sum, SumAllocIndex, failAt, Allocated(P.SymbolBytes))
        product0 == AfterAllocate(e.Product, ProductAllocIndex, failAt,
                                  Allocated(P.SymbolBytes))
    IN  IF ~P.ok THEN [enc |-> e, result |-> Fecal_InvalidInput]
        ELSE IF failAt # 0
        THEN [enc |-> [Window |-> W, LaneSums |-> lanes0, Sum |-> sum0,
                       Product |-> product0],
              result |-> Fecal_OutOfMemory]
        ELSE [enc |-> [Window |-> W,
                       LaneSums |-> AccumulateColumns(lanes0, W, 0, junk),
                       Sum |-> sum0, Product |-> product0],
              result |-> Fecal_Success]

\* ------------------------------------------------------------------------
\* Encoder::Encode

\* the test of line 114 inverted
EncodeNotInitializedInverted(e) == e.Product # Null

\* line 114: if (!Product.Data)
EncodeNotInitialized(e) == e.Product = Null

\* line 128 without the rounding up
PairCountTruncated(W) == W.InputCount \div kPairAddRate

\* line 128
PairCount(W) == (W.InputCount + kPairAddRate - 1) \div kPairAddRate

\* number of bytes Encode reads from an original column (lines 138-153, 170-179)
EncodeReadBytes(W, element) ==
    IF IsFinalColumn(W, element) THEN W.FinalBytes ELSE W.SymbolBytes

\* Encode reads the column past the end of the caller's buffer
EncodeOverRead(W, element) == EncodeReadBytes(W, element) > Len(Original(W, element))

\* lines 137-153 without the memset of the tail
CopyOriginalNoPad(dst, W, element, junk) ==
    memcpy(dst, Original(W, element), EncodeReadBytes(W, element), junk)

\* lines 137-153: accumulator = Original[element], zero padded
CopyOriginal(dst, W, element, junk) ==
    IF IsFinalColumn(W, element)
    THEN memset0(memcpy(dst, Original(W, element), W.FinalBytes, junk),
                 W.FinalBytes, W.SymbolBytes)
    ELSE memcpy(dst, Original(W, element), W.SymbolBytes, junk)

\* lines 169-179: accumulator += Original[element]
AddOriginal(dst, W, element, junk) ==
    IF IsFinalColumn(W, element)
    THEN gf256_add_mem(dst, Original(W, element), W.FinalBytes, junk)
    ELSE XORSummerAdd(dst, Original(W, element), W.SymbolBytes, junk)

\* lines 130-154: the unrolled first iteration; prng is the generator before it
EncodeFirstPair(e, prng, junk) ==
    LET W == e.Window
        p1 == PCGAdvance(prng)
        element1 == PCGValue(p1) % W.InputCount
        p2 == PCGAdvance(p1)
        elementRX == PCGValue(p2) % W.InputCount
    IN  [enc |-> [e EXCEPT !.Sum = CopyOriginal(e.Sum, W, element1, junk),
                           !.Product = CopyOriginal(e.Product, W, elementRX, junk)],
         prng |-> p2,
         over |-> EncodeOverRead(W, element1) \/ EncodeOverRead(W, elementRX)]

\* lines 161-180: one iteration of the loop
EncodeNextPair(e, prng, junk) ==
    LET W == e.Window
        p1 == PCGAdvance(prng)
        element1 == PCGValue(p1) % W.InputCount
        p2 == PCGAdvance(p1)
        elementRX == PCGValue(p2) % W.InputCount
    IN  [enc |-> [e EXCEPT !.Sum = AddOriginal(e.Sum, W, element1, junk),
                           !.Product = AddOriginal(e.Product, W, elementRX, junk)],
         prng |-> p2,
         over |-> EncodeOverRead(W, element1) \/ EncodeOverRead(W, elementRX)]

\* the loop of line 161 from iteration i on
RECURSIVE EncodePairs(_, _, _, _)
EncodePairs(e, prng, i, junk) ==
    IF i >= PairCount(e.Window) THEN [enc |-> e, prng |-> prng, over |-> FALSE]
    ELSE LET r == EncodeNextPair(e, prng, junk)
             rest == EncodePairs(r.enc, r.prng, i + 1, junk)
         IN  [rest EXCEPT !.over = rest.over \/ r.over]

\* lines 190-197, from sum index sumIndex on: bits 0..2 of the opcode add the
\* lane's sums into Sum, bits 3..5 into Product
RECURSIVE AddLaneBits(_, _, _, _, _, _, _)
AddLaneBits(acc, lane, opcode, firstBit, sumIndex, bytes, junk) ==
    IF sumIndex >= kColumnSumCount THEN acc
    ELSE AddLaneBits(
            IF OpcodeBit(opcode, firstBit + sumIndex)
            THEN XORSummerAdd(acc, lane[sumIndex], bytes, junk)
            ELSE acc,
            lane, opcode, firstBit, sumIndex + 1, bytes, junk)

\* lines 183-198 with Product taking the bits of Sum
EncodeLaneSameBits(e, laneIndex, row, junk) ==
    LET opcode == GetRowOpcode(laneIndex, row)
        lane == e.LaneSums[laneIndex]
        bytes == e.Window.SymbolBytes
    IN  [e EXCEPT !.Sum = AddLaneBits(e.Sum, lane, opcode, 0, 0, bytes, junk),
                  !.Product = AddLaneBits(e.Product, lane, opcode, 0, 0, bytes, junk)]

\* lines 183-198: one lane
EncodeLane(e, laneIndex, row, junk) ==
    LET opcode == GetRowOpcode(laneIndex, row)
        lane == e.LaneSums[laneIndex]
        bytes == e.Window.SymbolBytes
    IN  [e EXCEPT !.Sum = AddLaneBits(e.Sum, lane, opcode, 0, 0, bytes, junk),
                  !.Product = AddLaneBits(e.Product, lane, opcode, kColumnSumCount,
                                          0, bytes, junk)]

RECURSIVE EncodeLanes(_, _, _, _)
EncodeLanes(e, laneIndex, row, junk) ==
    IF laneIndex >= kColumnLaneCount THEN e
    ELSE EncodeLanes(EncodeLane(e, laneIndex, row, junk), laneIndex + 1, row, junk)

\* line 204 with a lane sum as the destination
EncodeCombineIntoLane(e, row, junk) ==
    [e EXCEPT !.LaneSums[0][0] = gf256_muladd_mem(e.LaneSums[0][0], GetRowValue(row),
                                                  e.Product, e.Window.SymbolBytes, junk)]

\* line 204: Sum += RX * Product
EncodeCombine(e, row, junk) ==
    [e EXCEPT !.Sum = gf256_muladd_mem(e.Sum, GetRowValue(row), e.Product,
                                       e.Window.SymbolBytes, junk)]

\* lines 207-209
OutputSymbol(e, row) == [Data |-> "Sum", Bytes |-> e.Window.SymbolBytes, Index |-> row]

\* lines 117-211 as a function of the object
EncodeOp(e, row, junk) ==
    LET first == EncodeFirstPair(e, PCGSeed(row, e.Window.InputCount), junk)
        pairs == EncodePairs(first.enc, first.prng, 1, junk)
        lanes == EncodeLanes(pairs.enc, 0, row, junk)
    IN  [enc |-> EncodeCombine(lanes, row, junk), draws |-> pairs.prng.Draws,
         over |-> first.over \/ pairs.over]

\* Encode would divide by zero, or touch a null or too short buffer
EncodeInvalidAccess(e, row) ==
    \/ e.Window.InputCount = 0
    \/ Len(e.Sum) < e.Window.SymbolBytes
    \/ Len(e.Product) < e.Window.SymbolBytes
    \/ \E lane \in Lanes, bit \in 0..(2 * kColumnSumCount - 1) :
          /\ OpcodeBit(GetRowOpcode(lane, row), bit)
          /\ Len(e.LaneSums[lane][bit % kColumnSumCount]) < e.Window.SymbolBytes

\* ------------------------------------------------------------------------
\* State

VARIABLES
    enc,        \* the Encoder object
    symbol,     \* the caller's FecalSymbol
    result,     \* what the last call returned
    op,         \* the last call
    initResult, \* what the last Initialize returned
    seen,       \* since the last Initialize, if it succeeded: per row the bytes
                \* its first Encode returned, and whether some row was encoded
                \* again right after another row
    readPast,   \* the last call read a caller buffer past its end
    draws,      \* Next() calls of the last Encode
    inits,      \* Initialize calls counted by the allocation-failure runs
    pc,         \* per thread: where its Encode call stands
    local,      \* per thread: row, generator, loop counter of its Encode call
    ret,        \* per thread: what its Encode returned and the bytes of the
                \* symbol at that moment
    interfered, \* per thread: another call wrote Sum or Product during its call
    encs,       \* three Encoder objects, for blocks A, B and A xor B
    outs,       \* the repair symbols the three returned for the same row
    linState    \* "None", "Ready", "Encoded" or "Crash" for the three, which
                \* are initialized once

tvars == <<pc, local, ret, interfered>>

lvars == <<encs, outs, linState>>

vars == <<enc, symbol, result, op, initResult, seen, readPast, draws, inits,
          tvars, lvars>>

Rows == 0..MaxRow

NullSymbol == [Data |-> "null", Bytes |-> 0, Index |-> 0]

NoSeen == [bytes |-> [r \in Rows |-> <<>>], again |-> FALSE]

JunkFns == [1..MaxSymbolBytes -> JunkBytes]

NoJunk == [i \in 1..MaxSymbolBytes |-> 0]

\* the contents of the memory between offsets from and upto past a buffer
JunkFor(from, upto) ==
    {j \in JunkFns : \A i \in 1..MaxSymbolBytes : (i <= from \/ i > upto) => j[i] = 0}

Init ==
    /\ enc = FreshEncoder
    /\ symbol = NullSymbol
    /\ result = "None"
    /\ op = [name |-> "None", row |-> 0]
    /\ initResult = "None"
    /\ seen = NoSeen
    /\ readPast = FALSE
    /\ draws = 0
    /\ inits = 0
    /\ pc = [t \in Threads |-> "idle"]
    /\ local = [t \in Threads |-> [row |-> 0, prng |-> PCGSeed(0, 0), i |-> 0]]
    /\ ret = [t \in Threads |-> [result |-> "None", bytes |-> <<>>]]
    /\ interfered = [t \in Threads |-> FALSE]
    /\ encs = [x \in {"A", "B", "C"} |-> FreshEncoder]
    /\ outs = [x \in {"A", "B", "C"} |-> <<>>]
    /\ linState = "None"

\* Initialize(input_count, input_data, total_bytes) for a caller whose block
\* is data, when allocation number failAt fails (0: none)
Initialize(input_count, data, total_bytes, failAt) ==
    /\ result # Crash
    /\ LET P == SetParameters(input_count, total_bytes)
           over == /\ P.ok
                   /\ failAt = 0
                   /\ InitializeOverRead([InputCount |-> input_count,
                                          SymbolBytes |-> P.SymbolBytes,
                                          OriginalData |-> data])
       IN  \E outcome \in (IF over THEN {"junk", "crash"} ELSE {"ok"}) :
           \E junk \in (IF outcome = "junk"
                        THEN JunkFor(P.FinalBytes, P.SymbolBytes) ELSE {NoJunk}) :
             LET r == InitializeOp(enc, input_count, data, total_bytes, failAt, junk)
                 res == IF outcome = "crash" THEN Crash ELSE r.result
             IN  /\ enc' = r.enc
                 /\ result' = res
                 /\ initResult' = res
                 /\ readPast' = over
    /\ op' = [name |-> "Initialize", row |-> 0]
    /\ seen' = NoSeen
    /\ draws' = 0
    /\ UNCHANGED symbol

\* Encode(row, symbol)
Encode(row) ==
    /\ result # Crash
    /\ op' = [name |-> "Encode", row |-> row]
    /\ IF EncodeNotInitialized(enc)
       THEN /\ result' = Fecal_InvalidInput
            /\ draws' = 0
            /\ readPast' = FALSE
            /\ UNCHANGED <<enc, symbol, seen>>
       ELSE \E outcome \in (IF enc.Window.InputCount = 0 THEN {"crash"}
                            ELSE IF EncodeInvalidAccess(enc, row) THEN {"junk", "crash"}
                            ELSE {"ok"}) :
            \E junk \in (IF outcome = "junk" THEN JunkFns ELSE {NoJunk}) :
              IF outcome = "crash"
              THEN /\ result' = Crash
                   /\ draws' = 0
                   /\ readPast' = FALSE
                   /\ UNCHANGED <<enc, symbol, seen>>
              ELSE LET r == EncodeOp(enc, row, junk)
                   IN  /\ enc' = r.enc
                       /\ draws' = r.draws
                       /\ readPast' = r.over
                       /\ symbol' = OutputSymbol(enc, row)
                       /\ result' = Fecal_Success
                       /\ seen' = IF initResult # Fecal_Success THEN seen
                                  ELSE [bytes |-> IF seen.bytes[row] = <<>>
                                                  THEN [seen.bytes EXCEPT ![row] = r.enc.Sum]
                                                  ELSE seen.bytes,
                                        again |-> \/ seen.again
                                                  \/ /\ seen.bytes[row] # <<>>
                                                     /\ op.name = "Encode"
                                                     /\ op.row # row]
    /\ UNCHANGED initResult

\* the calls of a caller whose allocations all succeed
Next ==
    \/ \E input_count \in 0..MaxInputCount,
          total_bytes \in 0..(MaxInputCount * MaxSymbolBytes) :
          /\ SetParameters(input_count, total_bytes).SymbolBytes <= MaxSymbolBytes
          /\ \E data \in CallerBlocks(input_count, total_bytes) :
                Initialize(input_count, data, total_bytes, 0)
          /\ UNCHANGED <<inits, tvars, lvars>>
    \/ \E row \in Rows : Encode(row) /\ UNCHANGED <<inits, tvars, lvars>>

Spec == Init /\ [][Next]_vars

\* ------------------------------------------------------------------------
\* What the calls are meant to compute, stated over whole blocks

\* the instance is Ready: its last Initialize succeeded
Ready == initResult = Fecal_Success

\* least n with n * b >= a
CeilDiv(a, b) == CHOOSE n \in 0..a : n * b >= a /\ (n - 1) * b < a

\* the value of the n-th Next() after Seed(row, count)
RECURSIVE NthDraw(_, _)
NthDraw(prng, n) == IF n = 0 THEN PCGValue(prng) ELSE NthDraw(PCGAdvance(prng), n - 1)

\* the column pair number i (from 1) selects for Sum and for Product
Element1(W, row, i) == NthDraw(PCGSeed(row, W.InputCount), 2 * i - 1) % W.InputCount

ElementRX(W, row, i) == NthDraw(PCGSeed(row, W.InputCount), 2 * i) % W.InputCount

\* byte j of original column c read as a full symbol
PaddedByte(W, c, j) == IF j <= Len(Original(W, c)) THEN Original(W, c)[j] ELSE 0

RECURSIVE XorOfBytes(_)
XorOfBytes(bytes) ==
    IF bytes = <<>> THEN 0 ELSE Xor(Head(bytes), XorOfBytes(Tail(bytes)))

\* byte j of the XOR of the lane power sums the opcode bits from firstBit select
RECURSIVE SelectedLaneByte(_, _, _, _, _)
SelectedLaneByte(e, row, firstBit, j, n) ==
    IF n = 0 THEN 0
    ELSE LET lane == (n - 1) \div kColumnSumCount
             k == (n - 1) % kColumnSumCount
         IN  Xor(IF OpcodeBit(GetRowOpcode(lane, row), firstBit + k)
                 THEN e.LaneSums[lane][k][j] ELSE 0,
                 SelectedLaneByte(e, row, firstBit, j, n - 1))

\* S and P of the repair symbol of row
SparseSum(e, row, j) ==
    Xor(XorOfBytes([i \in 1..CeilDiv(e.Window.InputCount, kPairAddRate) |->
                        PaddedByte(e.Window, Element1(e.Window, row, i), j)]),
        SelectedLaneByte(e, row, 0, j, kColumnLaneCount * kColumnSumCount))

SparseProduct(e, row, j) ==
    Xor(XorOfBytes([i \in 1..CeilDiv(e.Window.InputCount, kPairAddRate) |->
                        PaddedByte(e.Window, ElementRX(e.Window, row, i), j)]),
        SelectedLaneByte(e, row, 3, j, kColumnLaneCount * kColumnSumCount))

RepairSymbol(e, row) ==
    [j \in 1..e.Window.SymbolBytes |->
        Xor(SparseSum(e, row, j), gf256_mul(GetRowValue(row), SparseProduct(e, row, j)))]

\* ColumnValue(c)^k * x
PowerTimes(c, k, x) ==
    IF k = 0 THEN x
    ELSE IF k = 1 THEN gf256_mul(GetColumnValue(c), x)
    ELSE gf256_mul(GetColumnValue(c), gf256_mul(GetColumnValue(c), x))

\* byte j of power sum k of a lane over the columns below n, skipping column skip
RECURSIVE PowerSumByte(_, _, _, _, _, _)
PowerSumByte(W, lane, k, j, n, skip) ==
    IF n = 0 THEN 0
    ELSE Xor(IF (n - 1) % kColumnLaneCount = lane /\ (n - 1) # skip
             THEN PowerTimes(n - 1, k, PaddedByte(W, n - 1, j)) ELSE 0,
             PowerSumByte(W, lane, k, j, n - 1, skip))

PowerSum(W, lane, k) ==
    [j \in 1..W.SymbolBytes |-> PowerSumByte(W, lane, k, j, W.InputCount, -1)]

\* ------------------------------------------------------------------------
\* Properties of the calls of one caller (Spec)

\* C3: after a successful Initialize, every Encode(r) returns the bytes the
\* first Encode(r) since that Initialize returned, whatever other rows were
\* encoded in between.
C3_SameRowSameBytes ==
    (op.name = "Encode" /\ Ready /\ result = Fecal_Success)
        => enc.Sum = seen.bytes[op.row]

\* a row was encoded, then another row with other bytes, then the row again
C3_Witness ==
    /\ op.name = "Encode" /\ Ready /\ result = Fecal_Success
    /\ seen.again
    /\ \E r \in Rows : seen.bytes[r] # <<>> /\ seen.bytes[r] # enc.Sum

\* C5: Encode on an instance on which Initialize was never called returns
\* InvalidInput and leaves the object, the caller's symbol and the original
\* buffers untouched.
C5_EncodeBeforeInitialize ==
    (op.name = "Encode" /\ initResult = "None")
        => /\ result = Fecal_InvalidInput
           /\ enc = FreshEncoder
           /\ symbol = NullSymbol
           /\ draws = 0
           /\ ~readPast

C5_Witness ==
    op.name = "Encode" /\ initResult = "None" /\ result = Fecal_InvalidInput

\* C7: an Encode call on a Ready instance leaves it Ready and changes neither
\* the Window (parameters and bound originals) nor any lane power sum; only
\* Sum, Product and the caller's symbol are written, in place.
C7_EncodeFrame ==
    [][(op'.name = "Encode" /\ Ready)
        => /\ enc'.Window = enc.Window
           /\ enc'.LaneSums = enc.LaneSums
           /\ Len(enc'.Sum) = Len(enc.Sum)
           /\ Len(enc'.Product) = Len(enc.Product)
           /\ ~EncodeNotInitialized(enc')
           /\ initResult' = initResult]_vars

\* an Encode on a Ready instance with nonzero lane sums has written the workspace
C7_Witness ==
    /\ op.name = "Encode" /\ Ready /\ result = Fecal_Success
    /\ \E lane \in Lanes, k \in Sums : \E j \in 1..enc.Window.SymbolBytes :
          enc.LaneSums[lane][k][j] # 0
    /\ \A j \in 1..enc.Window.SymbolBytes : enc.Product[j] # Uninit

\* C8: Encode(row) on a Ready instance returns Success with the symbol
\* (Sum, symbolBytes, row), draws the generator 2 * ceil(inputCount /
\* kPairAddRate) times, and Sum = S xor RowValue(row) * P.
C8_EncodeValue ==
    (op.name = "Encode" /\ Ready)
        => /\ result = Fecal_Success
           /\ symbol = [Data |-> "Sum", Bytes |-> enc.Window.SymbolBytes,
                        Index |-> op.row]
           /\ draws = 2 * CeilDiv(enc.Window.InputCount, kPairAddRate)
           /\ enc.Sum = RepairSymbol(enc, op.row)

\* two pairs were drawn, the short final column was selected for Sum in a
\* later iteration and a column was selected twice
C8_Witness ==
    /\ op.name = "Encode" /\ Ready /\ result = Fecal_Success
    /\ draws = 4
    /\ enc.Window.FinalBytes < enc.Window.SymbolBytes
    /\ IsFinalColumn(enc.Window, Element1(enc.Window, op.row, 2))
    /\ \/ Element1(enc.Window, op.row, 1) = Element1(enc.Window, op.row, 2)
       \/ ElementRX(enc.Window, op.row, 1) = ElementRX(enc.Window, op.row, 2)
       \/ Element1(enc.Window, op.row, 1) = ElementRX(enc.Window, op.row, 1)

\* C2: with finalBytes < symbolBytes the final column contributes to the
\* first finalBytes bytes only of its lane's power sums and of Sum and
\* Product, and no byte past its finalBytes is read.
C2_FinalColumnTruncation ==
    (Ready /\ enc.Window.FinalBytes < enc.Window.SymbolBytes)
        => /\ ~readPast
           /\ \A k \in Sums :
              \A j \in (enc.Window.FinalBytes + 1)..enc.Window.SymbolBytes :
                 enc.LaneSums[(enc.Window.InputCount - 1) % kColumnLaneCount][k][j]
                    = PowerSumByte(enc.Window,
                                   (enc.Window.InputCount - 1) % kColumnLaneCount,
                                   k, j, enc.Window.InputCount,
                                   enc.Window.InputCount - 1)
           /\ (op.name = "Encode" => enc.Sum = RepairSymbol(enc, op.row))

\* C9: after a successful Initialize every lane power sum k of lane L is the
\* XOR over the columns c of lane L of ColumnValue(c)^k * data[c], the final
\* column read as zero padded; a lane without columns is zero.
C9_LanePowerSums ==
    (op.name = "Initialize" /\ result = Fecal_Success)
        => \A lane \in Lanes, k \in Sums :
              enc.LaneSums[lane][k] = PowerSum(enc.Window, lane, k)

\* ------------------------------------------------------------------------
\* Calls of a caller whose allocator can fail

\* the blocks the allocation-failure runs initialize with: none, and two
\* columns of one or two bytes
AllocInputCounts == {0, 2}

AllocTotalBytes == {2, 3}

NextAlloc ==
    \/ \E input_count \in AllocInputCounts,
          total_bytes \in AllocTotalBytes,
          failAt \in 0..NumAllocs :
          /\ inits < MaxAllocInits
          /\ Initialize(input_count, CallerBlock(1, input_count, total_bytes),
                        total_bytes, failAt)
          /\ inits' = inits + 1
          /\ UNCHANGED <<tvars, lvars>>
    \/ \E row \in Rows : Encode(row) /\ UNCHANGED <<inits, tvars, lvars>>

SpecAlloc == Init /\ [][NextAlloc]_vars

\* C1: after an Initialize that returned InvalidInput or OutOfMemory every
\* Encode returns InvalidInput until an Initialize succeeds.
C1_FailedInitializeUninitialized ==
    (op.name = "Encode" /\ initResult \in {Fecal_InvalidInput, Fecal_OutOfMemory})
        => result = Fecal_InvalidInput

\* C4: when Initialize returns OutOfMemory the instance holds no lane-sum or
\* workspace buffer.
C4_NoBufferHeldAfterOutOfMemory ==
    (op.name = "Initialize" /\ result = Fecal_OutOfMemory)
        => /\ \A lane \in Lanes, k \in Sums : enc.LaneSums[lane][k] = Null
           /\ enc.Sum = Null
           /\ enc.Product = Null

\* ------------------------------------------------------------------------
\* Two Encode calls on one instance without serialization: every statement
\* group of Encode that writes a buffer is one step

\* the calls in flight write through the object's Sum and Product
InFlight(t) == pc[t] \in {"pairs", "lanes", "combine", "return"}

\* thread t wrote the workspace: every other call in flight was interfered with
Interfere(t) ==
    interfered' = [u \in Threads |-> interfered[u] \/ (u # t /\ InFlight(u))]

\* lines 111-154: the test, the parameters, the seed and the first pair
EncodeBegin(t, row) ==
    /\ pc[t] = "idle"
    /\ result # Crash
    /\ IF EncodeNotInitialized(enc)
       THEN /\ pc' = [pc EXCEPT ![t] = "done"]
            /\ ret' = [ret EXCEPT ![t] = [result |-> Fecal_InvalidInput, bytes |-> <<>>]]
            /\ UNCHANGED <<enc, local, interfered>>
       ELSE LET r == EncodeFirstPair(enc, PCGSeed(row, enc.Window.InputCount), NoJunk)
            IN  /\ enc' = r.enc
                /\ local' = [local EXCEPT ![t] = [row |-> row, prng |-> r.prng, i |-> 1]]
                /\ pc' = [pc EXCEPT ![t] =
                            IF 1 < PairCount(enc.Window) THEN "pairs" ELSE "lanes"]
                /\ Interfere(t)
                /\ UNCHANGED ret
    /\ UNCHANGED <<symbol, result, op, initResult, seen, readPast, draws, inits, lvars>>

\* lines 161-180: one iteration
EncodePair(t) ==
    /\ pc[t] = "pairs"
    /\ LET r == EncodeNextPair(enc, local[t].prng, NoJunk)
       IN  /\ enc' = r.enc
           /\ local' = [local EXCEPT ![t].prng = r.prng, ![t].i = local[t].i + 1]
           /\ pc' = [pc EXCEPT ![t] =
                       IF local[t].i + 1 < PairCount(enc.Window) THEN "pairs" ELSE "lanes"]
    /\ Interfere(t)
    /\ UNCHANGED <<symbol, result, op, initResult, seen, readPast, draws, inits, ret, lvars>>

\* lines 183-198: the lanes
EncodeAddLanes(t) ==
    /\ pc[t] = "lanes"
    /\ enc' = EncodeLanes(enc, 0, local[t].row, NoJunk)
    /\ pc' = [pc EXCEPT ![t] = "combine"]
    /\ Interfere(t)
    /\ UNCHANGED <<symbol, result, op, initResult, seen, readPast, draws, inits,
                   local, ret, lvars>>

\* lines 200-204
EncodeFinish(t) ==
    /\ pc[t] = "combine"
    /\ enc' = EncodeCombine(enc, local[t].row, NoJunk)
    /\ pc' = [pc EXCEPT ![t] = "return"]
    /\ Interfere(t)
    /\ UNCHANGED <<symbol, result, op, initResult, seen, readPast, draws, inits,
                   local, ret, lvars>>

\* lines 206-211: the caller gets a view of Sum
EncodeReturn(t) ==
    /\ pc[t] = "return"
    /\ symbol' = OutputSymbol(enc, local[t].row)
    /\ ret' = [ret EXCEPT ![t] = [result |-> Fecal_Success, bytes |-> enc.Sum]]
    /\ pc' = [pc EXCEPT ![t] = "done"]
    /\ UNCHANGED <<enc, result, op, initResult, seen, readPast, draws, inits,
                   local, interfered, lvars>>

NextConc ==
    \/ \E total_bytes \in {MaxInputCount * MaxSymbolBytes - 1,
                           MaxInputCount * MaxSymbolBytes} :
       \E data \in CallerBlocks(MaxInputCount, total_bytes) :
          /\ \A t \in Threads : pc[t] = "idle"
          /\ Initialize(MaxInputCount, data, total_bytes, 0)
          /\ UNCHANGED <<inits, tvars, lvars>>
    \/ \E t \in Threads, row \in Rows : EncodeBegin(t, row)
    \/ \E t \in Threads : EncodePair(t)
    \/ \E t \in Threads : EncodeAddLanes(t)
    \/ \E t \in Threads : EncodeFinish(t)
    \/ \E t \in Threads : EncodeReturn(t)

SpecConc == Init /\ [][NextConc]_vars

\* C6: a call that returns Success with bytes other than its row's repair
\* symbol was interfered with by another call writing Sum or Product; and
\* such a call exists (C6_Witness).
C6_WrongBytesOnlyByInterference ==
    \A t \in Threads :
        (pc[t] = "done" /\ ret[t].result = Fecal_Success
            /\ ret[t].bytes # RepairSymbol(enc, local[t].row))
        => interfered[t]

\* a call returned Success with bytes that are not its row's repair symbol
C6_Witness ==
    \E t \in Threads :
        /\ pc[t] = "done" /\ ret[t].result = Fecal_Success
        /\ ret[t].bytes # RepairSymbol(enc, local[t].row)
        /\ \E u \in Threads : u # t /\ local[u].row # local[t].row /\ pc[u] # "idle"

\* ------------------------------------------------------------------------
\* Three encoders over blocks A, B and C = A xor B of the same shape

XorBlocks(A, B) == [c \in 1..Len(A) |-> [i \in 1..Len(A[c]) |-> Xor(A[c][i], B[c][i])]]

InitializeThree(input_count, total_bytes, bA, bB) ==
    /\ linState = "None"
    /\ SetParameters(input_count, total_bytes).ok
    /\ LET P == SetParameters(input_count, total_bytes)
           A == CallerBlock(bA, input_count, total_bytes)
           B == CallerBlock(bB, input_count, total_bytes)
           over == InitializeOverRead([InputCount |-> input_count,
                                       SymbolBytes |-> P.SymbolBytes,
                                       OriginalData |-> A])
           junks == IF over THEN JunkFor(P.FinalBytes, P.SymbolBytes) ELSE {NoJunk}
       IN  \E outcome \in (IF over THEN {"junk", "crash"} ELSE {"ok"}) :
           \E jA \in junks, jB \in junks, jC \in junks :
             /\ encs' = [x \in {"A", "B", "C"} |->
                  InitializeOp(encs[x], input_count,
                               IF x = "A" THEN A ELSE IF x = "B" THEN B
                               ELSE XorBlocks(A, B),
                               total_bytes, 0,
                               IF x = "A" THEN jA ELSE IF x = "B" THEN jB ELSE jC).enc]
             /\ linState' = IF outcome = "crash" THEN "Crash" ELSE "Ready"
    /\ outs' = [x \in {"A", "B", "C"} |-> <<>>]
    /\ UNCHANGED <<enc, symbol, result, op, initResult, seen, readPast, draws, inits,
                   tvars>>

EncodeThree(row) ==
    /\ linState \in {"Ready", "Encoded"}
    /\ encs' = [x \in {"A", "B", "C"} |-> EncodeOp(encs[x], row, NoJunk).enc]
    /\ outs' = [x \in {"A", "B", "C"} |-> encs'[x].Sum]
    /\ linState' = "Encoded"
    /\ UNCHANGED <<enc, symbol, result, op, initResult, seen, readPast, draws, inits,
                   tvars>>

NextLin ==
    \/ \E input_count \in 1..MaxInputCount,
          total_bytes \in 1..(MaxInputCount * MaxSymbolBytes),
          bA \in Blocks, bB \in Blocks :
          /\ SetParameters(input_count, total_bytes).SymbolBytes <= MaxSymbolBytes
          /\ InitializeThree(input_count, total_bytes, bA, bB)
    \/ \E row \in Rows : EncodeThree(row)

SpecLin == Init /\ [][NextLin]_vars

\* C10: the repair symbol of A xor B is the XOR of the repair symbols of A
\* and of B for the same inputCount, totalBytes and row.
C10_EncodeAdditive ==
    linState = "Encoded"
        => outs["C"] = [j \in 1..Len(outs["A"]) |-> Xor(outs["A"][j], outs["B"][j])]

====
